---- MODULE Spec2Model ----
(***************************************************************************)
(* Membership engine of GLHFhah/membership (src/solution/member.py): the   *)
(* GroupMember process, its add/remove registers, probe timers, and the    *)
(* PING / PING_ANSWER handlers, composed into a small cluster.             *)
(***************************************************************************)
EXTENDS Integers, Sequences, FiniteSets, TLC

\* ---------------------------------------------------------------- bounds
MaxGen == 2
MaxTicks == 1
MaxNet == 1
JoinTicks == 4
GroupGen == 4
LeaveTicks == 4
CrashTicks == 8
QuitTicks == 4
CutTicks == 8
RelayTicks == 4
WatchTicks == 9
WatchNet == 2
ProbeRounds == 2
LabGen == 2
LabTs == 0
LabW == 1

\* ------------------------------------------------------- program constants
T == 5
S == 3
K == 2
SAMPLE_SIZE == 20
BOOTSTRAP_TS == -1

Proc == {"a", "b", "c"}
Commanded == {"a", "b"}
Seed == "a"
NoTarget == "None"

\* joined .. active: the fields of each GroupMember.  timers: each process'
\* pending timers, name -> seconds left.  net: messages in flight.  now: the
\* clock ctx.time() reads.  sent: what the last callback sent (recorded when
\* limits.trace).  limits: the exploration bounds of the specification at
\* hand.  lab: the scenario's bookkeeping (inputs, results, history).
VARIABLES joined, generation, time, added_members, removed_members,
          waiting_answer, active, timers, net, now, sent, limits, lab

vars == <<joined, generation, time, added_members, removed_members,
          waiting_answer, active, timers, net, now, sent, limits, lab>>

fields == <<joined, generation, time, added_members, removed_members,
             waiting_answer, active, timers>>

\* ------------------------------------------------------------ dict helpers
EmptyDict == <<>>

Get(d, k, default) == IF k \in DOMAIN d THEN d[k] ELSE default

Put(d, k, v) == [x \in DOMAIN d \cup {k} |-> IF x = k THEN v ELSE d[x]]

Del(d, k) == [x \in DOMAIN d \ {k} |-> d[x]]

Max(x, y) == IF x > y THEN x ELSE y

Min(x, y) == IF x < y THEN x ELSE y

\* ------------------------------------------------------ one process' state
\* The fields of a GroupMember, plus what one callback hands to its Context:
\* out (ctx.send / ctx.send_local, in order) and timers (set_timer / cancel).
NewMember == [joined |-> FALSE, generation |-> 0, time |-> 0,
              added_members |-> EmptyDict, removed_members |-> EmptyDict,
              waiting_answer |-> EmptyDict, active |-> {},
              timers |-> EmptyDict, out |-> <<>>]

Send(s, msg, dst) == [s EXCEPT !.out = Append(@, [dst |-> dst, msg |-> msg])]

SendLocal(s, msg) == [s EXCEPT !.out = Append(@, [dst |-> "local", msg |-> msg])]

SetTimer(s, name, delay) == [s EXCEPT !.timers = Put(@, name, delay)]

CancelTimer(s, name) == [s EXCEPT !.timers = Del(@, name)]

PingTimer(target) == "ping_" \o target

IsPingTimer(name) == \E q \in Proc : name = PingTimer(q)

TimerTarget(name) == CHOOSE q \in Proc : name = PingTimer(q)

\* ---------------------------------------------------------------- register store
MarkAdded(s, proc_id, timestamp) ==
    LET g == s.generation + 1
        a == Put(s.added_members, proc_id, <<timestamp, g>>)
        r == IF proc_id \in DOMAIN s.removed_members
                /\ a[proc_id][1] > s.removed_members[proc_id][1]
             THEN Del(s.removed_members, proc_id)
             ELSE s.removed_members
    IN [s EXCEPT !.generation = g,
                 !.added_members = a,
                 !.removed_members = r,
                 !.time = Max(s.time, g),
                 !.active = s.active \cup {proc_id}]

\* _mark_removed without the update of the logical time.
MarkRemovedKeepsTime(s, proc_id, timestamp) ==
    LET g == s.generation + 1
        r == Put(s.removed_members, proc_id, <<timestamp, g>>)
        a == IF proc_id \in DOMAIN s.added_members
                /\ r[proc_id][2] > s.added_members[proc_id][2]
             THEN Del(s.added_members, proc_id)
             ELSE s.added_members
    IN [s EXCEPT !.generation = g,
                 !.removed_members = r,
                 !.added_members = a,
                 !.active = s.active \ {proc_id}]

MarkRemoved(s, proc_id, timestamp) ==
    LET g == s.generation + 1
        r == Put(s.removed_members, proc_id, <<timestamp, g>>)
        a == IF proc_id \in DOMAIN s.added_members
                /\ r[proc_id][2] > s.added_members[proc_id][2]
             THEN Del(s.added_members, proc_id)
             ELSE s.added_members
    IN [s EXCEPT !.generation = g,
                 !.removed_members = r,
                 !.added_members = a,
                 !.time = Max(s.time, g),
                 !.active = s.active \ {proc_id}]

GetActiveMembers(s) ==
    {proc_id \in DOMAIN s.added_members :
        \/ proc_id \notin DOMAIN s.removed_members
        \/ s.added_members[proc_id][2] > s.removed_members[proc_id][2]}

\* ------------------------------------------------------------- serializer
\* random.sample(items, min(SAMPLE_SIZE, len(items))), encoded per entry as
\* {'timestamp': ts, 'generation': gen}.
SerializeSample(data_dict) ==
    LET n == Min(SAMPLE_SIZE, Cardinality(DOMAIN data_dict))
    IN {[proc_id \in picked |-> [timestamp |-> data_dict[proc_id][1],
                                 generation |-> data_dict[proc_id][2]]] :
          picked \in {P \in SUBSET DOMAIN data_dict : Cardinality(P) = n}}

\* ------------------------------------------------------------------ merge
\* An added entry taken over whatever generation is already held.
MergeAddedEntryNoCheck(s, proc_id, data) ==
    LET ts == Get(data, "timestamp", 0)
        gen == Get(data, "generation", 0)
    IN [s EXCEPT !.added_members = Put(@, proc_id, <<ts, gen>>),
                 !.removed_members =
                     IF proc_id \in DOMAIN @ /\ @[proc_id][2] < gen
                     THEN Del(@, proc_id) ELSE @]

MergeAddedEntry(s, proc_id, data) ==
    LET ts == Get(data, "timestamp", 0)
        gen == Get(data, "generation", 0)
        current_gen == Get(s.added_members, proc_id, <<0, -1>>)[2]
    IN IF gen > current_gen
       THEN [s EXCEPT !.added_members = Put(@, proc_id, <<ts, gen>>),
                      !.removed_members =
                          IF proc_id \in DOMAIN @ /\ @[proc_id][2] < gen
                          THEN Del(@, proc_id) ELSE @]
       ELSE s

MergeRemovedEntry(s, proc_id, data) ==
    LET ts == Get(data, "timestamp", 0)
        gen == Get(data, "generation", 0)
        current_gen == Get(s.removed_members, proc_id, <<0, -1>>)[2]
    IN IF gen > current_gen
       THEN [s EXCEPT !.removed_members = Put(@, proc_id, <<ts, gen>>),
                      !.added_members =
                          IF proc_id \in DOMAIN @ /\ @[proc_id][2] < gen
                          THEN Del(@, proc_id) ELSE @]
       ELSE s

RECURSIVE MergeAddedLoop(_, _, _)
MergeAddedLoop(s, sample, todo) ==
    IF todo = {} THEN s
    ELSE LET proc_id == CHOOSE q \in todo : TRUE
         IN MergeAddedLoop(MergeAddedEntry(s, proc_id, sample[proc_id]),
                           sample, todo \ {proc_id})

RECURSIVE MergeRemovedLoop(_, _, _)
MergeRemovedLoop(s, sample, todo) ==
    IF todo = {} THEN s
    ELSE LET proc_id == CHOOSE q \in todo : TRUE
         IN MergeRemovedLoop(MergeRemovedEntry(s, proc_id, sample[proc_id]),
                             sample, todo \ {proc_id})

MergeCrdtSample(s, added_sample, removed_sample, time_value) ==
    LET s0 == [s EXCEPT !.time = Max(s.time, time_value)]
        s1 == MergeAddedLoop(s0, added_sample, DOMAIN added_sample)
        s2 == MergeRemovedLoop(s1, removed_sample, DOMAIN removed_sample)
    IN [s2 EXCEPT !.active = GetActiveMembers(s2)]

\* --------------------------------------------------------------- messages
PingMessage(added, removed, time_value) ==
    [type |-> "PING",
     data |-> [added |-> added, removed |-> removed, time |-> time_value]]

IndirectPingMessage(added, removed, time_value, target) ==
    [type |-> "PING",
     data |-> [added |-> added, removed |-> removed, time |-> time_value,
               target |-> target]]

PingAnswerMessage(added, removed, time_value) ==
    [type |-> "PING_ANSWER",
     data |-> [added |-> added, removed |-> removed, time |-> time_value]]

RECURSIVE SendEach(_, _, _, _)
\* ctx.send(msgs[i], dsts[i]) for i = from .. Len(msgs), in order
SendEach(s, msgs, dsts, from) ==
    IF from > Len(msgs) THEN s
    ELSE SendEach(Send(s, msgs[from], dsts[from]), msgs, dsts, from + 1)

\* The orders in which a Python set can be walked: every arrangement of it.
Orders(set) ==
    {seq \in [1..Cardinality(set) -> set] :
        \A i, j \in 1..Cardinality(set) : i # j => seq[i] # seq[j]}

\* --------------------------------------------------------- join/leave glue
StartPeriodicPing(s) == SetTimer(s, "periodic_ping", T)

CreateGroup(s, self, clock) ==
    LET s1 == [s EXCEPT !.joined = TRUE]
        s2 == MarkAdded(s1, self, clock)
        s3 == [s2 EXCEPT !.active = @ \cup {self}]
    IN {StartPeriodicPing(s3)}

\* JoinGroup without its bootstrap PINGs to the seed.
JoinGroupSilent(s, self, seed) ==
    IF s.joined THEN {s}
    ELSE LET s1 == [s EXCEPT !.joined = TRUE]
             s2 == MarkAdded(s1, self, BOOTSTRAP_TS)
             s3 == [s2 EXCEPT !.active = @ \cup {self}]
         IN {StartPeriodicPing(s3)}

JoinGroup(s, self, seed) ==
    IF s.joined THEN {s}
    ELSE LET s1 == [s EXCEPT !.joined = TRUE]
             s2 == MarkAdded(s1, self, BOOTSTRAP_TS)
             s3 == [s2 EXCEPT !.active = @ \cup {self}]
             msgs == {PingMessage(a, r, s3.time) :
                        a \in SerializeSample(s3.added_members),
                        r \in SerializeSample(s3.removed_members)}
         IN {StartPeriodicPing(SendEach(s3, ms, [i \in 1..K |-> seed], 1)) :
               ms \in [1..K -> msgs]}

\* LeaveGroup without its _mark_removed call.
LeaveGroupNoMark(s, self, clock) ==
    IF ~s.joined THEN {s}
    ELSE LET s1 == [s EXCEPT !.joined = FALSE]
             s3 == [s1 EXCEPT !.active = @ \ {self}]
         IN {CancelTimer(s3, "periodic_ping")}

LeaveGroup(s, self, clock) ==
    IF ~s.joined THEN {s}
    ELSE LET s1 == [s EXCEPT !.joined = FALSE]
             s2 == MarkRemoved(s1, self, clock)
             s3 == [s2 EXCEPT !.active = @ \ {self}]
         IN {CancelTimer(s3, "periodic_ping")}

OnLocalMessage(s, self, msg, clock) ==
    IF msg.type = "JOIN"
    THEN IF msg.seed = self THEN CreateGroup(s, self, clock)
         ELSE JoinGroup(s, self, msg.seed)
    ELSE IF msg.type = "LEAVE" THEN LeaveGroup(s, self, clock)
    ELSE IF msg.type = "GET_MEMBERS"
    THEN {SendLocal(s, [type |-> "MEMBERS", members |-> members]) :
            members \in Orders(GetActiveMembers(s))}
    ELSE {s}

\* ---------------------------------------------------------- probe scheduler
PeriodicPing(s, self) ==
    IF ~s.joined \/ s.active = {}
    THEN {SetTimer(s, "periodic_ping", T)}
    ELSE LET candidates == s.active \ {self}
         IN IF candidates = {}
            THEN {SetTimer(s, "periodic_ping", T)}
            ELSE {SetTimer(
                    SetTimer(
                      Send([s EXCEPT !.waiting_answer = Put(@, target, 1)],
                           PingMessage(a, r, s.time), target),
                      PingTimer(target), T * S),
                    "periodic_ping", T) :
                  target \in candidates,
                  a \in SerializeSample(s.added_members),
                  r \in SerializeSample(s.removed_members)}

PingWithRetransmitters(s, self, target) ==
    LET candidates == {p \in s.active : p # self /\ p # target}
        n == Min(K, Cardinality(candidates))
    IN {SendEach(s, [i \in 1..n |-> IndirectPingMessage(a, r, s.time, target)],
                 SubSeq(order, 1, n), 1) :
          order \in Orders(candidates),
          a \in SerializeSample(s.added_members),
          r \in SerializeSample(s.removed_members)}

OnTimer(s, self, timer_name, clock) ==
    IF IsPingTimer(timer_name)
    THEN LET target == TimerTarget(timer_name)
             status == Get(s.waiting_answer, target, 0)
         IN IF status = 1
            THEN {SetTimer(s2, timer_name, T * S) :
                    s2 \in PingWithRetransmitters(
                             [s EXCEPT !.waiting_answer = Put(@, target, 2)],
                             self, target)}
            ELSE IF status = 2
            THEN {[MarkRemoved(s, target, clock)
                     EXCEPT !.waiting_answer = Del(@, target)]}
            ELSE {s}
    ELSE IF timer_name = "periodic_ping" THEN PeriodicPing(s, self)
    ELSE {s}

\* --------------------------------------------------------- message handlers
\* OnPing passing a PING with a target on even when the target is the receiver.
OnPingAlwaysRelay(s, self, msg, sender, clock) ==
    LET added_data == Get(msg.data, "added", EmptyDict)
        removed_data == Get(msg.data, "removed", EmptyDict)
        time_value == Get(msg.data, "time", 0)
        s1 == MergeCrdtSample(s, added_data, removed_data, time_value)
        target == Get(msg.data, "target", NoTarget)
    IN IF target # NoTarget
       THEN {Send(s1, msg, target)}
       ELSE LET s2 == IF sender \notin DOMAIN s1.added_members
                      THEN MarkAdded(s1, sender, clock) ELSE s1
            IN {Send(s2, PingAnswerMessage(a, r, s2.time), sender) :
                  a \in SerializeSample(s2.added_members),
                  r \in SerializeSample(s2.removed_members)}

OnPing(s, self, msg, sender, clock) ==
    LET added_data == Get(msg.data, "added", EmptyDict)
        removed_data == Get(msg.data, "removed", EmptyDict)
        time_value == Get(msg.data, "time", 0)
        s1 == MergeCrdtSample(s, added_data, removed_data, time_value)
        target == Get(msg.data, "target", NoTarget)
    IN IF target # NoTarget /\ target # self
       THEN {Send(s1, msg, target)}
       ELSE LET s2 ==
                  IF sender \notin DOMAIN s1.added_members
                  THEN MarkAdded(s1, sender, clock)
                  ELSE IF sender \in DOMAIN s1.removed_members
                  THEN LET added_gen == Get(s1.added_members, sender, <<0, -1>>)[2]
                           removed_gen == s1.removed_members[sender][2]
                           s1m == IF removed_gen >= added_gen
                                  THEN MarkAdded(s1, sender, clock) ELSE s1
                       IN [s1m EXCEPT !.active = @ \cup {sender}]
                  ELSE s1
            IN {Send(s2, PingAnswerMessage(a, r, s2.time), sender) :
                  a \in SerializeSample(s2.added_members),
                  r \in SerializeSample(s2.removed_members)}

\* _on_ping_answer without the clearing of the suspicion and of its timer.
OnPingAnswerKeepsTimer(s, self, msg, sender, clock) ==
    LET added_data == Get(msg.data, "added", EmptyDict)
        removed_data == Get(msg.data, "removed", EmptyDict)
        time_value == Get(msg.data, "time", 0)
        s1 == MergeCrdtSample(s, added_data, removed_data, time_value)
        s3 == IF sender \notin DOMAIN s1.added_members
              THEN MarkAdded(s1, sender, clock) ELSE s1
    IN {[s3 EXCEPT !.active = @ \cup {sender}]}

OnPingAnswer(s, self, msg, sender, clock) ==
    LET added_data == Get(msg.data, "added", EmptyDict)
        removed_data == Get(msg.data, "removed", EmptyDict)
        time_value == Get(msg.data, "time", 0)
        s1 == MergeCrdtSample(s, added_data, removed_data, time_value)
        s2 == IF Get(s1.waiting_answer, sender, 0) > 0
              THEN CancelTimer([s1 EXCEPT !.waiting_answer = Put(@, sender, 0)],
                               PingTimer(sender))
              ELSE s1
        s3 == IF sender \notin DOMAIN s2.added_members
              THEN MarkAdded(s2, sender, clock) ELSE s2
    IN {[s3 EXCEPT !.active = @ \cup {sender}]}

OnMessage(s, self, msg, sender, clock) ==
    IF msg.type = "PING" THEN OnPing(s, self, msg, sender, clock)
    ELSE IF msg.type = "PING_ANSWER" THEN OnPingAnswer(s, self, msg, sender, clock)
    ELSE {s}

\* ------------------------------------------------------------ the cluster
State(p) ==
    [joined |-> joined[p], generation |-> generation[p], time |-> time[p],
     added_members |-> added_members[p], removed_members |-> removed_members[p],
     waiting_answer |-> waiting_answer[p], active |-> active[p],
     timers |-> timers[p], out |-> <<>>]

\* What the transport takes from one callback of p: its ctx.send calls.
Outgoing(p, out) ==
    {[src |-> p, dst |-> out[i].dst, msg |-> out[i].msg] :
        i \in {j \in 1..Len(out) : out[j].dst # "local"}}

\* The callback of p returned with state s2, having consumed `consumed`.
Commit(p, s2, consumed) ==
    /\ s2.generation <= limits.gen
    /\ Cardinality((net \ consumed) \cup Outgoing(p, s2.out)) <= limits.net
    /\ net' = (net \ consumed) \cup Outgoing(p, s2.out)
    /\ joined' = [joined EXCEPT ![p] = s2.joined]
    /\ generation' = [generation EXCEPT ![p] = s2.generation]
    /\ time' = [time EXCEPT ![p] = s2.time]
    /\ added_members' = [added_members EXCEPT ![p] = s2.added_members]
    /\ removed_members' = [removed_members EXCEPT ![p] = s2.removed_members]
    /\ waiting_answer' = [waiting_answer EXCEPT ![p] = s2.waiting_answer]
    /\ active' = [active EXCEPT ![p] = s2.active]
    /\ timers' = [timers EXCEPT ![p] = s2.timers]
    /\ sent' = IF limits.trace
               THEN [i \in 1..Len(s2.out) |->
                       [src |-> p, dst |-> s2.out[i].dst, msg |-> s2.out[i].msg]]
               ELSE <<>>
    /\ UNCHANGED <<now, limits>>

Join(p, seed) ==
    \E s2 \in OnLocalMessage(State(p), p, [type |-> "JOIN", seed |-> seed], now) :
        Commit(p, s2, {})

Leave(p) ==
    \E s2 \in OnLocalMessage(State(p), p, [type |-> "LEAVE"], now) :
        Commit(p, s2, {})

GetMembers(p) ==
    \E s2 \in OnLocalMessage(State(p), p, [type |-> "GET_MEMBERS"], now) :
        Commit(p, s2, {})

\* The transport hands m to its destination; it may hand it over again later.
Deliver(m, again) ==
    \E s2 \in OnMessage(State(m.dst), m.dst, m.msg, m.src, now) :
        Commit(m.dst, s2, IF again THEN {} ELSE {m})

Drop(m) ==
    /\ net' = net \ {m}
    /\ sent' = <<>>
    /\ UNCHANGED <<fields, now, limits>>

\* A timer whose delay has run out fires; firing takes it off the timer list.
Fire(p, timer_name) ==
    /\ timers[p][timer_name] = 0
    /\ \E s2 \in OnTimer(CancelTimer(State(p), timer_name), p, timer_name, now) :
          Commit(p, s2, {})

NoTimerDue == \A p \in Proc : \A n \in DOMAIN timers[p] : timers[p][n] > 0

\* T seconds pass: possible only when every timer that is due has fired.
Tick ==
    /\ NoTimerDue
    /\ now < limits.ticks * T
    /\ now' = now + T
    /\ timers' = [p \in Proc |-> [n \in DOMAIN timers[p] |-> timers[p][n] - T]]
    /\ sent' = <<>>
    /\ UNCHANGED <<joined, generation, time, added_members, removed_members,
                   waiting_answer, active, net, limits>>

Fresh ==
    /\ joined = [p \in Proc |-> NewMember.joined]
    /\ generation = [p \in Proc |-> NewMember.generation]
    /\ time = [p \in Proc |-> NewMember.time]
    /\ added_members = [p \in Proc |-> NewMember.added_members]
    /\ removed_members = [p \in Proc |-> NewMember.removed_members]
    /\ waiting_answer = [p \in Proc |-> NewMember.waiting_answer]
    /\ active = [p \in Proc |-> NewMember.active]
    /\ timers = [p \in Proc |-> NewMember.timers]
    /\ net = {}
    /\ now = 0
    /\ sent = <<>>

LabOff == [pc |-> "off"]

\* ------------------------------------------------- Spec: a lossy cluster
\* a and b take commands (a is the seed of every JOIN); messages may be lost,
\* delayed and delivered more than once.
Init ==
    /\ Fresh
    /\ limits = [gen |-> MaxGen, ticks |-> MaxTicks, net |-> MaxNet, trace |-> TRUE]
    /\ lab = LabOff

Next ==
    \/ \E p \in Commanded : Join(p, Seed) /\ UNCHANGED lab
    \/ \E p \in Commanded : Leave(p) /\ UNCHANGED lab
    \/ \E m \in net, again \in BOOLEAN : Deliver(m, again) /\ UNCHANGED lab
    \/ \E m \in net : Drop(m) /\ UNCHANGED lab
    \/ \E p \in Proc : \E n \in DOMAIN timers[p] : Fire(p, n) /\ UNCHANGED lab
    \/ Tick /\ UNCHANGED lab

Spec == Init /\ [][Next]_vars

\* ------------------------------------- the merge on its own (SpecMerge)
LabIds == {"a"}

LabTimestamps == {BOOTSTRAP_TS} \cup (0..LabTs)

LabEntries == LabTimestamps \X (1..LabGen)

\* Every register over LabIds: a dict ProcessId -> (timestamp, generation).
LabRegisters == UNION {[D -> LabEntries] : D \in SUBSET LabIds}

\* A GroupMember whose registers and watermark are the given ones.
LabMember(added, removed, w) ==
    LET s == [NewMember EXCEPT !.added_members = added,
                               !.removed_members = removed,
                               !.time = w]
    IN [s EXCEPT !.active = GetActiveMembers(s)]

LabMembers ==
    {LabMember(a, r, w) : a \in LabRegisters, r \in LabRegisters, w \in 0..LabW}

\* The payload a member's registers make when sent whole.
Payloads(s) ==
    {[added |-> a, removed |-> r, time |-> s.time] :
        a \in SerializeSample(s.added_members),
        r \in SerializeSample(s.removed_members)}

LabPayloads == UNION {Payloads(s) : s \in LabMembers}

Merge(s, x) == MergeCrdtSample(s, x.added, x.removed, x.time)

\* What a merge is compared on: both registers, W and the active set.
Registers(s) ==
    [added |-> s.added_members, removed |-> s.removed_members, time |-> s.time,
     active |-> GetActiveMembers(s)]

InitMerge ==
    /\ Fresh
    /\ limits = [gen |-> 0, ticks |-> 0, net |-> 0, trace |-> FALSE]
    /\ lab \in {[pc |-> "input", s |-> s, x |-> x, y |-> y] :
                  s \in LabMembers, x \in LabPayloads, y \in LabPayloads}

MergeTwice ==
    /\ lab.pc = "input"
    /\ lab' = [pc |-> "twice", s |-> lab.s, x |-> lab.x,
               once |-> Registers(Merge(lab.s, lab.x)),
               twice |-> Registers(Merge(Merge(lab.s, lab.x), lab.x))]
    /\ UNCHANGED <<fields, net, now, sent, limits>>

MergeBothOrders ==
    /\ lab.pc = "input"
    /\ lab' = [pc |-> "orders", s |-> lab.s, x |-> lab.x, y |-> lab.y,
               xy |-> Registers(Merge(Merge(lab.s, lab.x), lab.y)),
               yx |-> Registers(Merge(Merge(lab.s, lab.y), lab.x))]
    /\ UNCHANGED <<fields, net, now, sent, limits>>

NextMerge == MergeTwice \/ MergeBothOrders

SpecMerge == InitMerge /\ [][NextMerge]_vars

\* C2: merging a payload twice leaves added, removed, W and the active set
\* as merging it once does.
MergeIdempotent == lab.pc = "twice" => lab.twice = lab.once

\* C3: merging x then y yields the same added register, removed register and
\* W as merging y then x.
MergeCommutative ==
    lab.pc = "orders" =>
        /\ lab.xy.added = lab.yx.added
        /\ lab.xy.removed = lab.yx.removed
        /\ lab.xy.time = lab.yx.time

\* ------------------------- two members exchange registers (SpecExchange)
InitExchange ==
    /\ Fresh
    /\ limits = [gen |-> 0, ticks |-> 0, net |-> 0, trace |-> FALSE]
    /\ lab \in {[pc |-> "input", A |-> sa, B |-> sb] :
                  sa \in LabMembers, sb \in LabMembers}

\* A merges the whole of B's registers and B the whole of A's.
Exchange ==
    /\ lab.pc = "input"
    /\ \E xa \in Payloads(lab.A), xb \in Payloads(lab.B) :
          lab' = [pc |-> "exchanged", A0 |-> lab.A, B0 |-> lab.B,
                  A |-> Merge(lab.A, xb), B |-> Merge(lab.B, xa)]
    /\ UNCHANGED <<fields, net, now, sent, limits>>

\* The same, one after the other: B merges A's registers, then A merges the
\* registers B holds after that.
ExchangeInTurn ==
    /\ lab.pc = "input"
    /\ \E xa \in Payloads(lab.A) :
          LET b2 == Merge(lab.B, xa)
          IN \E xb \in Payloads(b2) :
                lab' = [pc |-> "exchanged", A0 |-> lab.A, B0 |-> lab.B,
                        A |-> Merge(lab.A, xb), B |-> b2]
    /\ UNCHANGED <<fields, net, now, sent, limits>>

NextExchange == Exchange \/ ExchangeInTurn

SpecExchange == InitExchange /\ [][NextExchange]_vars

\* C4: after two members have merged the full contents of each other's
\* registers, their active_members() are equal.
PairwiseConvergence ==
    lab.pc = "exchanged" => GetActiveMembers(lab.A) = GetActiveMembers(lab.B)

\* Two members that disagreed on the active set have exchanged registers and
\* now agree.
DisagreementSettled ==
    /\ lab.pc = "exchanged"
    /\ GetActiveMembers(lab.A0) # GetActiveMembers(lab.B0)
    /\ GetActiveMembers(lab.A) = GetActiveMembers(lab.B)

\* -------------------------------------------------- claims on the cluster
ActiveMembers(p) == GetActiveMembers(State(p))

\* C1: in every reachable state, for every ProcessId q at most one of
\* added[q] and removed[q] is present in a process' registers.
AtMostOneRegister ==
    \A p \in Proc :
        DOMAIN added_members[p] \cap DOMAIN removed_members[p] = {}

\* C6: a process whose joined flag is false is not in its own
\* active_members().
NotJoinedNotMember == \A p \in Proc : ~joined[p] => p \notin ActiveMembers(p)

\* C7: a JOIN handled while joined and a LEAVE handled while not joined
\* leave added, removed, G, W, the active set and the suspicion map
\* unchanged and send nothing.
RedundantCommandsNoOp ==
    [][\A p \in Commanded :
          (\/ joined[p] /\ Join(p, Seed)
           \/ ~joined[p] /\ Leave(p))
          => /\ added_members'[p] = added_members[p]
             /\ removed_members'[p] = removed_members[p]
             /\ generation'[p] = generation[p]
             /\ time'[p] = time[p]
             /\ active'[p] = active[p]
             /\ GetActiveMembers([added_members |-> added_members'[p],
                                  removed_members |-> removed_members'[p]])
                  = ActiveMembers(p)
             /\ waiting_answer'[p] = waiting_answer[p]
             /\ sent' = <<>>]_vars

\* --------------------------- SpecSolo: one process and its command inbox
\* Process a takes JOIN (any seed), LEAVE and GET_MEMBERS; its timers run;
\* what it sends to the others is answered or lost.  lab.pc follows the
\* events a has handled since it was created: "fresh", then "created" after
\* JOIN{seed: a}, then "left" after LEAVE; timer firings and GET_MEMBERS keep
\* it, any other command or any network message makes it "other".
InitSolo ==
    /\ Fresh
    /\ limits = [gen |-> MaxGen, ticks |-> MaxTicks, net |-> MaxNet, trace |-> TRUE]
    /\ lab = [pc |-> "fresh"]

SoloJoin(seed) ==
    /\ Join("a", seed)
    /\ lab' = [pc |-> IF lab.pc = "fresh" /\ seed = "a" THEN "created" ELSE "other"]

SoloLeave ==
    /\ Leave("a")
    /\ lab' = [pc |-> IF lab.pc = "created" THEN "left" ELSE "other"]

SoloDeliver(m) ==
    /\ Deliver(m, FALSE)
    /\ lab' = [pc |-> IF m.dst = "a" THEN "other" ELSE lab.pc]

NextSolo ==
    \/ \E seed \in Proc : SoloJoin(seed)
    \/ SoloLeave
    \/ GetMembers("a") /\ UNCHANGED lab
    \/ \E m \in net : SoloDeliver(m)
    \/ \E m \in net : Drop(m) /\ UNCHANGED lab
    \/ \E n \in DOMAIN timers["a"] : Fire("a", n) /\ UNCHANGED lab
    \/ Tick /\ UNCHANGED lab

SpecSolo == InitSolo /\ [][NextSolo]_vars

\* C5: a fresh process that handled JOIN{seed: self} and then LEAVE, with no
\* network message in between, has no active member, and GET_MEMBERS then
\* replies MEMBERS with an empty list.
SeedJoinLeaveEmpty ==
    lab.pc = "left" =>
        /\ ActiveMembers("a") = {}
        /\ \A i \in 1..Len(sent) :
              sent[i].msg.type = "MEMBERS" => sent[i].msg.members = <<>>

SeedJoinLeaveReplied ==
    /\ lab.pc = "left"
    /\ Len(sent) = 1
    /\ sent[1].src = "a" /\ sent[1].dst = "local"
    /\ sent[1].msg.type = "MEMBERS"

\* ------------------------------ SpecJoin: b joins the group a created
\* a handles JOIN{seed: a}, then b handles JOIN{seed: a}.  No message is
\* lost, and every message in flight is handled before the clock moves on,
\* so before any suspicion timer runs out.
InitJoin ==
    /\ Fresh
    /\ limits = [gen |-> MaxGen, ticks |-> JoinTicks, net |-> MaxNet,
                 trace |-> FALSE]
    /\ lab = [pc |-> "start"]

SeedCreates ==
    /\ lab.pc = "start"
    /\ Join("a", "a")
    /\ lab' = [pc |-> "created"]

JoinerJoins ==
    /\ lab.pc = "created"
    /\ Join("b", "a")
    /\ lab' = [pc |-> "joining"]

\* Time passes only once the transport has handed over what it holds.
TickQuiet == net = {} /\ Tick

JoinProgress ==
    \/ \E m \in net : Deliver(m, FALSE) /\ UNCHANGED lab
    \/ \E p \in Proc : \E n \in DOMAIN timers[p] : Fire(p, n) /\ UNCHANGED lab
    \/ TickQuiet /\ UNCHANGED lab

NextJoin == SeedCreates \/ JoinerJoins \/ JoinProgress

SpecJoin == InitJoin /\ [][NextJoin]_vars /\ WF_vars(JoinProgress)

BothSeeBoth ==
    /\ ActiveMembers("a") = {"a", "b"}
    /\ ActiveMembers("b") = {"a", "b"}

\* C10: once b has handled JOIN{seed: a} in the group a created, eventually
\* both a and b have active_members() = {a, b}, and keep it from then on.
JoinConverges == (lab.pc = "joining") ~> [](BothSeeBoth)

JoinConverged ==
    /\ lab.pc = "joining"
    /\ BothSeeBoth
    /\ now >= T * S
    /\ \E p \in {"a", "b"} : \E q \in DOMAIN waiting_answer[p] :
          waiting_answer[p][q] = 0

\* ------------------------- SpecLeave: c leaves a stable group {a, b, c}
\* The group forms from fresh processes: a handles JOIN{seed: a} (possibly
\* LEAVE and JOIN{seed: a} again), then b and c handle JOIN{seed: a}.  Once
\* every member lists all three and nothing is in flight, c handles LEAVE.
\* No message is lost and each is handled before the clock moves on.  lab.probes[p] counts the
\* PING_ANSWERs from c that p has handled since c left (up to ProbeRounds).
InitLeave ==
    /\ Fresh
    /\ limits = [gen |-> GroupGen, ticks |-> LeaveTicks, net |-> MaxNet,
                 trace |-> FALSE]
    /\ lab = [pc |-> "forming", probes |-> [p \in {"a", "b"} |-> 0]]

Stable ==
    /\ net = {}
    /\ \A p \in Proc : joined[p] /\ ActiveMembers(p) = Proc

FormSeed ==
    /\ lab.pc = "forming"
    /\ ~joined["a"] /\ ~joined["b"] /\ ~joined["c"]
    /\ Join("a", "a")
    /\ UNCHANGED lab

\* The seed may have left its own group and created it anew before the
\* others arrive.
FormSeedLeave ==
    /\ lab.pc = "forming"
    /\ joined["a"] /\ ~joined["b"] /\ ~joined["c"]
    /\ Leave("a")
    /\ UNCHANGED lab

FormJoin(p) ==
    /\ lab.pc = "forming"
    /\ joined["a"] /\ ~joined[p]
    /\ Join(p, "a")
    /\ UNCHANGED lab

LeaveC ==
    /\ lab.pc = "forming"
    /\ Stable
    /\ Leave("c")
    /\ lab' = [lab EXCEPT !.pc = "left"]

LeaveDeliver(m) ==
    /\ Deliver(m, FALSE)
    /\ lab' = IF /\ lab.pc = "left"
                 /\ m.src = "c" /\ m.dst \in {"a", "b"}
                 /\ m.msg.type = "PING_ANSWER"
              THEN [lab EXCEPT !.probes[m.dst] = Min(@ + 1, ProbeRounds)]
              ELSE lab

NextLeave ==
    \/ FormSeed
    \/ FormSeedLeave
    \/ \E p \in {"b", "c"} : FormJoin(p)
    \/ LeaveC
    \/ \E m \in net : LeaveDeliver(m)
    \/ \E p \in Proc : \E n \in DOMAIN timers[p] : Fire(p, n) /\ UNCHANGED lab
    \/ TickQuiet /\ UNCHANGED lab

SpecLeave == InitLeave /\ [][NextLeave]_vars

\* C8: after c has left the stable group, c is absent from active_members()
\* of a and of b once their probes of c have completed (here: once a member
\* has handled ProbeRounds answers from c).
LeaveObserved ==
    lab.pc = "left" =>
        \A p \in {"a", "b"} :
            lab.probes[p] >= ProbeRounds => "c" \notin ActiveMembers(p)

\* C15: in every state of the group, for every process, W >= G, W >= the
\* generation of every entry of its added and removed registers, and a local
\* mark taken there (_mark_added or _mark_removed, whose step of G does not
\* depend on the id marked) yields a strictly larger G; from each state to
\* the next W does not decrease, G changes only by growing, and a handler
\* that flips joined, which marks the process itself, leaves G larger.
ClocksOrdered ==
    /\ [](\A p \in Proc :
             /\ time[p] >= generation[p]
             /\ \A q \in DOMAIN added_members[p] :
                    time[p] >= added_members[p][q][2]
             /\ \A q \in DOMAIN removed_members[p] :
                    time[p] >= removed_members[p][q][2]
             /\ MarkAdded(State(p), p, now).generation > generation[p]
             /\ MarkRemoved(State(p), p, now).generation > generation[p])
    /\ [][\A p \in Proc :
             /\ time'[p] >= time[p]
             /\ generation'[p] >= generation[p]
             /\ joined'[p] # joined[p] => generation'[p] > generation[p]]_vars

\* After c has left, a member holds c's tombstone with a generation above
\* its own G: its W was raised by a merge, not by a mark of its own.
MergedAboveOwnGeneration ==
    /\ lab.pc = "left"
    /\ \E p \in {"a", "b"} :
          /\ joined[p] /\ generation[p] >= 1
          /\ "c" \in DOMAIN removed_members[p]
          /\ removed_members[p]["c"][2] > generation[p]
          /\ time[p] > generation[p]

\* ----------------------- SpecCrash: c falls silent in a stable group
\* The seed a creates the group, b and c join through it.  Once it is stable
\* c crashes: it handles nothing any more, its timers are gone, and what is
\* sent to it is lost.
\* Messages between a and b are handled before the clock moves on.
\* lab.probeAt is the clock at a's first direct PING to c after the crash
\* (-1 before it).
InitCrash ==
    /\ Fresh
    /\ limits = [gen |-> GroupGen, ticks |-> CrashTicks, net |-> MaxNet,
                 trace |-> FALSE]
    /\ lab = [pc |-> "forming", probeAt |-> -1]

Crash ==
    /\ lab.pc = "forming"
    /\ Stable
    /\ lab' = [lab EXCEPT !.pc = "crashed"]
    /\ timers' = [timers EXCEPT !["c"] = EmptyDict]
    /\ sent' = <<>>
    /\ UNCHANGED <<joined, generation, time, added_members, removed_members,
                   waiting_answer, active, net, now, limits>>

Alive(p) == p # "c" \/ lab.pc = "forming"

IsDirectPing(m, from, target) ==
    /\ m.src = from
    /\ m.dst = target
    /\ m.msg.type = "PING"
    /\ "target" \notin DOMAIN m.msg.data

CrashSeed == FormSeed

CrashFire(p, n) ==
    /\ Alive(p)
    /\ Fire(p, n)
    /\ lab' = IF /\ lab.pc = "crashed" /\ lab.probeAt < 0 /\ p = "a"
                 /\ \E m \in net' \ net : IsDirectPing(m, "a", "c")
              THEN [lab EXCEPT !.probeAt = now]
              ELSE lab

CrashDeliver(m) == Alive(m.dst) /\ Deliver(m, FALSE) /\ UNCHANGED lab

Silenced(m) == ~Alive(m.dst) /\ Drop(m) /\ UNCHANGED lab

NextCrash ==
    \/ CrashSeed
    \/ \E p \in {"b", "c"} : FormJoin(p)
    \/ Crash
    \/ \E p \in Proc : \E n \in DOMAIN timers[p] : CrashFire(p, n)
    \/ \E m \in net : CrashDeliver(m)
    \/ \E m \in net : Silenced(m)
    \/ TickQuiet /\ UNCHANGED lab

SpecCrash == InitCrash /\ [][NextCrash]_vars

\* C9: once a has sent a direct PING to the silent c, a has marked c removed
\* (c is out of a's active_members()) when more than 2*T*S have passed since
\* that PING.
CrashDetectedInTime ==
    (lab.pc = "crashed" /\ lab.probeAt >= 0 /\ now > lab.probeAt + 2 * T * S)
        => "c" \notin ActiveMembers("a")

\* ------------------------------------- further claims on the lossy cluster
\* What a duplicate delivery is compared on: both registers, G, W, the active
\* set and the suspicion map.
Core(s) ==
    [added |-> s.added_members, removed |-> s.removed_members,
     generation |-> s.generation, time |-> s.time,
     active |-> GetActiveMembers(s), waiting |-> s.waiting_answer]

\* The process state a callback starts from after the previous one returned.
Returned(s) == [s EXCEPT !.out = <<>>]

\* C11: for every message m in flight, handling m a second time right after
\* the first (same clock) leaves added, removed, G, W, the active set and the
\* suspicion map as the first handling left them.
DuplicateDeliveryIdempotent ==
    \A m \in net :
        \A s1 \in OnMessage(State(m.dst), m.dst, m.msg, m.src, now) :
            \A s2 \in OnMessage(Returned(s1), m.dst, m.msg, m.src, now) :
                Core(s2) = Core(s1)

\* C13: after every handled event the cached active set equals
\* active_members().
CacheIsActiveMembers == \A p \in Proc : active[p] = ActiveMembers(p)

\* An entry that is in `before` and no longer in `after` is dominated: the
\* opposite register `other` holds a strictly higher generation for its id.
Dominated(before, after, other) ==
    \A q \in DOMAIN before \ DOMAIN after :
        q \in DOMAIN other /\ other[q][2] > before[q][2]

\* The state of m's receiver when its handler has merged m's payload.
MergedBy(m) ==
    MergeCrdtSample(State(m.dst),
                    Get(m.msg.data, "added", EmptyDict),
                    Get(m.msg.data, "removed", EmptyDict),
                    Get(m.msg.data, "time", 0))

\* The handler of m goes on to mark the sender added after the merge.
MarksSender(m) ==
    \E s3 \in OnMessage(State(m.dst), m.dst, m.msg, m.src, now) :
        s3.generation = MergedBy(m).generation + 1

\* C17: in the merge and in the mark that the handler of a message in flight
\* makes, an added entry is deleted only if the removed register then holds
\* a strictly higher generation for that id, and a removed entry only if the
\* added register then holds a strictly higher generation.
GenerationDominance ==
    \A m \in net :
        LET s0 == State(m.dst)
            s1 == MergedBy(m)
            s2 == MarkAdded(s1, m.src, now)
        IN /\ Dominated(s0.added_members, s1.added_members, s1.removed_members)
           /\ Dominated(s0.removed_members, s1.removed_members, s1.added_members)
           /\ MarksSender(m) =>
                 /\ Dominated(s1.added_members, s2.added_members,
                              s2.removed_members)
                 /\ Dominated(s1.removed_members, s2.removed_members,
                              s2.added_members)

\* A PING that its receiver answers itself: no target, or the receiver.
IsDirectFor(m) ==
    /\ m.msg.type = "PING"
    /\ Get(m.msg.data, "target", NoTarget) \in {NoTarget, m.dst}

\* C18: right after a process has handled a direct PING or a PING_ANSWER, the
\* sender is in its active_members().
LivenessRefresh ==
    [][\A m \in net :
          (/\ IsDirectFor(m) \/ m.msg.type = "PING_ANSWER"
           /\ \E again \in BOOLEAN : Deliver(m, again))
          => m.src \in GetActiveMembers(
                          [added_members |-> added_members'[m.dst],
                           removed_members |-> removed_members'[m.dst]])]_vars

\* ------------------------- SpecQuit: b leaves a group that loses its probes
\* a creates the group, b and c join through it; a PING sent by b may be
\* lost.  At any moment after its JOIN b handles LEAVE, and handles no JOIN
\* again.
InitQuit ==
    /\ Fresh
    /\ limits = [gen |-> GroupGen, ticks |-> QuitTicks, net |-> MaxNet,
                 trace |-> FALSE]
    /\ lab = [pc |-> "forming"]

QuitLeave ==
    /\ lab.pc = "forming"
    /\ joined["b"]
    /\ Leave("b")
    /\ lab' = [pc |-> "left"]

QuitDrop(m) ==
    /\ m.src = "b" /\ m.msg.type = "PING"
    /\ Drop(m)
    /\ UNCHANGED lab

NextQuit ==
    \/ FormSeed
    \/ \E p \in {"b", "c"} : FormJoin(p)
    \/ QuitLeave
    \/ \E m \in net : Deliver(m, FALSE) /\ UNCHANGED lab
    \/ \E m \in net : QuitDrop(m)
    \/ \E p \in Proc : \E n \in DOMAIN timers[p] : Fire(p, n) /\ UNCHANGED lab
    \/ TickQuiet /\ UNCHANGED lab

SpecQuit == InitQuit /\ [][NextQuit]_vars

\* A timer of p is armed in this step: new, or with more time left.
Arms(p) ==
    \E n \in DOMAIN timers'[p] :
        n \notin DOMAIN timers[p] \/ timers'[p][n] > timers[p][n]

\* p puts a PING of its own on the network in this step: one it did not
\* receive and pass on.
Probes(p) ==
    \E m \in net' \ net :
        /\ m.src = p /\ m.msg.type = "PING"
        /\ ~\E m0 \in net : m0.dst = p /\ m0.msg = m.msg

\* C12: once b has handled LEAVE, no step arms a timer of b and b sends no
\* PING of its own.
NoProbeAfterLeave == [][lab.pc = "left" => ~Arms("b") /\ ~Probes("b")]_vars

\* ------------------ SpecCut: the link between a and c fails in a stable group
\* The seed a creates the group, b and c join through it.  Once it is stable
\* the link between a and c fails: every message sent from a to c or from c to
\* a is lost.  All three processes stay up; every message between a and b and
\* between b and c is handled before the clock moves on.  lab.helped tells
\* that c has handled a PING with target c that b passed on.
InitCut ==
    /\ Fresh
    /\ limits = [gen |-> GroupGen, ticks |-> CutTicks, net |-> MaxNet,
                 trace |-> FALSE]
    /\ lab = [pc |-> "forming", helped |-> FALSE]

Cut ==
    /\ lab.pc = "forming"
    /\ Stable
    /\ lab' = [lab EXCEPT !.pc = "cut"]
    /\ UNCHANGED <<fields, net, now, sent, limits>>

OnCutLink(m) == lab.pc = "cut" /\ {m.src, m.dst} = {"a", "c"}

IsRelayed(m, relay, target) ==
    /\ m.src = relay /\ m.dst = target
    /\ m.msg.type = "PING"
    /\ Get(m.msg.data, "target", NoTarget) = target

CutDeliver(m) ==
    /\ ~OnCutLink(m)
    /\ Deliver(m, FALSE)
    /\ lab' = IF lab.pc = "cut" /\ IsRelayed(m, "b", "c")
              THEN [lab EXCEPT !.helped = TRUE] ELSE lab

CutLose(m) == OnCutLink(m) /\ Drop(m) /\ UNCHANGED lab

NextCut ==
    \/ CrashSeed
    \/ \E p \in {"b", "c"} : FormJoin(p)
    \/ Cut
    \/ \E m \in net : CutDeliver(m)
    \/ \E m \in net : CutLose(m)
    \/ \E p \in Proc : \E n \in DOMAIN timers[p] : Fire(p, n) /\ UNCHANGED lab
    \/ TickQuiet /\ UNCHANGED lab

SpecCut == InitCut /\ [][NextCut]_vars

\* C19: while only the direct link between a and c is down and the helper b
\* has passed a's indirect PING on to c, a does not mark c removed.
IndirectProbeResolves ==
    (lab.pc = "cut" /\ lab.helped) => "c" \notin DOMAIN removed_members["a"]

\* C20: a process whose joined flag is true is in its own active_members().
JoinedIsMember == \A p \in Proc : joined[p] => p \in ActiveMembers(p)

\* SpecRelay: the same failure of the link between a and c, followed until
\* the first suspicion timers have run out and the indirect probes are made.
InitRelay ==
    /\ Fresh
    /\ limits = [gen |-> GroupGen, ticks |-> RelayTicks, net |-> MaxNet,
                 trace |-> FALSE]
    /\ lab = [pc |-> "forming", helped |-> FALSE]

SpecRelay == InitRelay /\ [][NextCut]_vars

\* C14: a process that handles a PING whose target is another process sends
\* exactly that PING to the target and nothing else, and makes no mark: its
\* registers are those the merge left.  A PING without target, or whose
\* target is the receiver, is answered with one PING_ANSWER to its sender and
\* not passed on.
RelayRule ==
    [][\A m \in net :
          (m.msg.type = "PING" /\ CutDeliver(m))
          => IF IsDirectFor(m)
             THEN \E x \in net' :
                     /\ net' = (net \ {m}) \cup {x}
                     /\ x.src = m.dst /\ x.dst = m.src
                     /\ x.msg.type = "PING_ANSWER"
             ELSE /\ net' = (net \ {m})
                            \cup {[src |-> m.dst, dst |-> m.msg.data.target,
                                   msg |-> m.msg]}
                  /\ generation'[m.dst] = generation[m.dst]
                  /\ added_members'[m.dst] = MergedBy(m).added_members
                  /\ removed_members'[m.dst] = MergedBy(m).removed_members]_vars

\* c has handled the PING that b passed on and its answer is on the way to b.
RelayAnswered ==
    /\ lab.pc = "cut" /\ lab.helped
    /\ \E m \in net :
          m.src = "c" /\ m.dst = "b" /\ m.msg.type = "PING_ANSWER"

\* --------------- SpecWatch: a watches two peers that have gone down
\* The seed a creates the group, b and c join through it.  Within the first
\* probe period both peers go down together: their timers are gone and what
\* is sent to them is lost.  What they had sent to a before may still be
\* delivered, at any later time, or be lost.  lab.expired[t] counts the
\* expiries of ping_t at a since a last handled a PING_ANSWER from t (up to
\* 2); lab.cleared tells that a PING_ANSWER reached a while its sender was in
\* AWAITING_INDIRECT.
InitWatch ==
    /\ Fresh
    /\ limits = [gen |-> GroupGen, ticks |-> WatchTicks, net |-> WatchNet,
                 trace |-> FALSE]
    /\ lab = [pc |-> "forming", expired |-> [t \in {"b", "c"} |-> 0],
              cleared |-> FALSE]

PeersCrash ==
    /\ lab.pc = "forming"
    /\ \A p \in Proc : joined[p]
    /\ ActiveMembers("a") = Proc
    /\ lab' = [lab EXCEPT !.pc = "crashed"]
    /\ timers' = [p \in Proc |-> IF p = "a" THEN timers[p] ELSE EmptyDict]
    /\ sent' = <<>>
    /\ UNCHANGED <<joined, generation, time, added_members, removed_members,
                   waiting_answer, active, net, now, limits>>

Up(p) == p = "a" \/ lab.pc = "forming"

WatchDeliver(m) ==
    /\ Up(m.dst)
    /\ Deliver(m, FALSE)
    /\ lab' = IF m.dst = "a" /\ m.msg.type = "PING_ANSWER"
              THEN [lab EXCEPT
                      !.expired[m.src] = 0,
                      !.cleared = @ \/ Get(waiting_answer["a"], m.src, 0) = 2]
              ELSE lab

WatchLose(m) == lab.pc = "crashed" /\ Drop(m) /\ UNCHANGED lab

WatchFire(p, n) ==
    /\ Up(p)
    /\ Fire(p, n)
    /\ lab' = IF p = "a" /\ IsPingTimer(n)
              THEN [lab EXCEPT !.expired[TimerTarget(n)] = Min(@ + 1, 2)]
              ELSE lab

\* The clock moves on when nothing is in flight to a process that is up;
\* while the group forms it moves on once.
WatchTick ==
    /\ lab.pc = "forming" => net = {} /\ now < T
    /\ \A m \in net : m.dst = "a"
    /\ Tick
    /\ UNCHANGED lab

NextWatch ==
    \/ CrashSeed
    \/ \E p \in {"b", "c"} : FormJoin(p)
    \/ PeersCrash
    \/ \E m \in net : WatchDeliver(m)
    \/ \E m \in net : WatchLose(m)
    \/ \E p \in Proc : \E n \in DOMAIN timers[p] : WatchFire(p, n)
    \/ WatchTick

SpecWatch == InitWatch /\ [][NextWatch]_vars

Suspicion(p, t) == Get(waiting_answer[p], t, 0)

\* C16: (1) a pending timer ping_t goes with a suspicion of t in
\* AWAITING_DIRECT or AWAITING_INDIRECT, so nothing escalates without a
\* direct PING that armed it; (2) after a PING_ANSWER from t is handled t is
\* under no suspicion and ping_t is not pending; (3) when an expiry of ping_t
\* marks t removed, t was in AWAITING_INDIRECT and ping_t had expired before
\* with no PING_ANSWER from t since.
NoSpuriousEscalation ==
    /\ [](\A p \in Proc : \A t \in Proc :
             PingTimer(t) \in DOMAIN timers[p] => Suspicion(p, t) \in {1, 2})
    /\ [][\A m \in net :
             (m.msg.type = "PING_ANSWER" /\ WatchDeliver(m))
             => /\ Suspicion(m.dst, m.src)' = 0
                /\ PingTimer(m.src) \notin DOMAIN timers'[m.dst]]_vars
    /\ [][\A t \in {"b", "c"} :
             (/\ PingTimer(t) \in DOMAIN timers["a"]
              /\ WatchFire("a", PingTimer(t))
              /\ generation'["a"] > generation["a"])
             => /\ Suspicion("a", t) = 2
                /\ lab.expired[t] >= 1
                /\ t \in DOMAIN removed_members'["a"]]_vars

\* An answer has cleared a suspicion in AWAITING_INDIRECT, and a has marked
\* a peer removed after two expiries.
ClearedAndRemoved ==
    /\ lab.pc = "crashed" /\ lab.cleared
    /\ \E t \in {"b", "c"} :
          t \in DOMAIN removed_members["a"] /\ lab.expired[t] = 2

====
